---- MODULE Spec2Model ----
(***************************************************************************)
(* Model of the EduNex chatbot proxy (src/app/api/ai/groq/route.ts):       *)
(*   - the Groq POST route              (lines 3-102)                      *)
(*   - the Gemini POST route with model discovery (lines 120-307)          *)
(*   - the client dispatcher aiReply    (lines 318-358)                    *)
(*   - the direct-from-client groqReply (lines 364-400)                    *)
(*                                                                         *)
(* One request is in flight at a time (the handlers share no state).  An   *)
(* action is the code between two await points of a handler; the answer    *)
(* of the awaited upstream call is the action's input.                     *)
(*                                                                         *)
(* Representation of JavaScript values:                                    *)
(*   - an optional string is a record [t, s]: t = "undefined", "string"    *)
(*     or "number" (a truthy non-string);                                  *)
(*   - a response body read by res.text() is a record [kind, text, val]:   *)
(*     kind "empty" is "", kind "text" is text that is not JSON, kind      *)
(*     "json" is the serialisation of the JSON value val;                  *)
(*   - a model name is a sequence of one-character strings;                *)
(*   - a message built by a template literal is a record holding the       *)
(*     template (fmt) and the values substituted into it;                  *)
(*   - an answer text is the sequence of lines joined by "\n"; the empty   *)
(*     string is the empty sequence.                                       *)
(* Every modelled non-JSON body is shorter than 120 characters, so         *)
(* raw.slice(0, 200) and raw.slice(0, 120) return it whole.                *)
(***************************************************************************)
EXTENDS Integers, Sequences, FiniteSets, TLC

VARIABLES
    fn,         \* the entry point running: "idle", "groq", "gemini", "aiReply", "groqReply"
    pc,         \* the await point the entry point is suspended at, or "done"
    calls,      \* the outbound HTTP calls issued by this request, in order
    v1List,     \* Gemini route: const v1List
    v1betaList, \* Gemini route: const v1betaList
    chosenV1,   \* Gemini route: const chosenV1
    chosenV1beta, \* Gemini route: const chosenV1beta
    selected,   \* Gemini route: const selected, with bareModel
    input,      \* the arguments of the call: request body, credential, provider
    res,        \* the settlement of the fetch awaited last (res and raw)
    result      \* what the entry point settled with: a response, a return value or a throw

vars == <<fn, pc, calls, v1List, v1betaList, chosenV1, chosenV1beta, selected, input,
          res, result>>

(***************************************************************************)
(* Bound of the model: the longest model listing an upstream returns.      *)
(***************************************************************************)
MaxModels == 2

----------------------------------------------------------------------------
(* JavaScript values *)

Undef == [t |-> "undefined", s |-> ""]
Str(x) == [t |-> "string", s |-> x]
Num == [t |-> "number", s |-> "42"]

\* JavaScript truthiness of an optional string / number
Truthy(v) == \/ v.t = "number"
             \/ v.t = "string" /\ v.s # ""

\* The error member of a decoded body: absent, a string, or an object
\* with an optional message member.
ErrUndef == [t |-> "undefined", s |-> "", message |-> Undef]
ErrStr(x) == [t |-> "string", s |-> x, message |-> Undef]
ErrObj(m) == [t |-> "object", s |-> "", message |-> m]

ErrTruthy(e) == \/ e.t = "object"
                \/ e.t = "string" /\ e.s # ""

\* A part of a Gemini candidate: only its text member is read.
PartsUndef == [t |-> "undefined", items |-> <<>>]
PartsArr(ps) == [t |-> "array", items |-> ps]
PartsObj == [t |-> "object", items |-> <<>>]

\* The models member of a ListModels body.
ModelsUndef == [t |-> "undefined", items |-> <<>>]
ModelsArr(ms) == [t |-> "array", items |-> ms]
ModelsObj == [t |-> "object", items |-> <<>>]

\* A decoded JSON value: null, a string, or an object of which the members
\* the code reads are kept.
JsonNull ==
    [t |-> "null", s |-> "", error |-> ErrUndef, message |-> Undef,
     content |-> Undef, parts |-> PartsUndef, models |-> ModelsUndef,
     text |-> Undef]
JsonString(x) == [JsonNull EXCEPT !.t = "string", !.s = x]
JsonObject == [JsonNull EXCEPT !.t = "object"]

\* Response bodies as res.text() returns them.
RawEmpty == [kind |-> "empty", text |-> "", val |-> JsonNull]
RawText(x) == [kind |-> "text", text |-> x, val |-> JsonNull]
RawJson(v) == [kind |-> "json", text |-> "", val |-> v]

\* JSON.parse(raw): the decoded value, or a SyntaxError.
JSONParse(raw) ==
    IF raw.kind = "json" THEN [ok |-> TRUE, val |-> raw.val]
    ELSE [ok |-> FALSE, val |-> JsonNull]

\* res.ok
Ok(status) == status >= 200 /\ status <= 299

\* The settlement of one fetch: it rejects (transport failure) with a cause,
\* or resolves to a response with a status and a body.
FetchRejects(cause) ==
    [transport |-> TRUE, cause |-> cause, status |-> 0, raw |-> RawEmpty]
FetchResolves(status, raw) ==
    [transport |-> FALSE, cause |-> "", status |-> status, raw |-> raw]
\* No fetch has settled yet.
NoRes == [transport |-> FALSE, cause |-> "", status |-> 0, raw |-> RawEmpty]

----------------------------------------------------------------------------
(* Messages and response envelopes *)

\* The "Details:" of the discovery failure: the two listing errors with
\* what they substitute, and the model names each listing returned.
\* A value substituted into a template: a string, or JSON.stringify(val).
Text(x) == [t |-> "text", s |-> x, val |-> JsonNull]
Stringified(v) == [t |-> "json", s |-> "", val |-> v]

\* The error member of listModels' result; fmt "" is undefined.
ListError(fmt, status, version, detail) ==
    [fmt |-> fmt, status |-> status, version |-> version, detail |-> detail]
NoListError == ListError("", 0, "", Text(""))
NoReasons ==
    [v1Error |-> NoListError, v1betaError |-> NoListError,
     v1Names |-> <<>>, v1betaNames |-> <<>>]

\* A message: its template and the values substituted into it.
Msg(fmt) ==
    [fmt |-> fmt, provider |-> "", status |-> 0, detail |-> Text(""),
     version |-> "", model |-> <<>>, reasons |-> NoReasons]
MsgS(fmt, status) == [Msg(fmt) EXCEPT !.status = status]
MsgSD(fmt, status, detail) == [Msg(fmt) EXCEPT !.status = status, !.detail = detail]
MsgD(fmt, detail) == [Msg(fmt) EXCEPT !.detail = detail]

NoMsg == Msg("")

\* The message of a thrown Error whose text is x; e?.message is falsy when
\* x is the empty string.
ErrorMessage(x) == MsgD("%s", Text(x))
MessageTruthy(m) == ~(m.fmt = "" \/ (m.fmt = "%s" /\ m.detail = Text("")))

\* A JSON envelope: keys is the set of members the object literal has.
ErrorBody(m) ==
    [keys |-> {"error"}, error |-> m, text |-> <<>>, provider |-> "",
     model |-> <<>>, version |-> ""]
NoBody ==
    [keys |-> {}, error |-> NoMsg, text |-> <<>>, provider |-> "",
     model |-> <<>>, version |-> ""]

\* What an entry point has settled with.
\*   kind "none"     : not settled
\*   kind "response" : a route returned NextResponse.json(body, {status})
\*   kind "throw"    : an exception with message e left the function
\*   kind "return"   : a client function returned body
Pending == [kind |-> "none", status |-> 0, body |-> NoBody, e |-> NoMsg]
Throw(m) == [kind |-> "throw", status |-> 0, body |-> NoBody, e |-> m]
Return(b) == [kind |-> "return", status |-> 0, body |-> b, e |-> NoMsg]

\* Statuses a Response cannot carry together with a body (Fetch standard,
\* "null body status"): Response.json throws a TypeError for them.
NullBodyStatus == {101, 204, 205, 304}

\* NextResponse.json(body, { status })
NextResponseJson(body, status) ==
    IF status \in NullBodyStatus
    THEN Throw(MsgS("Response constructor: Invalid response status code %s", status))
    ELSE [kind |-> "response", status |-> status, body |-> body, e |-> NoMsg]

\* res.status || 502
StatusOr502(status) == IF status = 0 THEN 502 ELSE status

----------------------------------------------------------------------------
(* Outbound calls *)

Call(site, url, version, model) ==
    [site |-> site, url |-> url, version |-> version, model |-> model,
     state |-> "pending"]

\* The pending call is the last one issued; it settles as the fetch does.
Settle(cs, o) ==
    [cs EXCEPT ![Len(cs)].state = IF o.transport THEN "rejected" ELSE "resolved"]

----------------------------------------------------------------------------
(* Inputs *)

\* The inbound request: req.json() rejects (json = FALSE) or yields a body
\* whose prompt member is read.
Requests ==
    {[json |-> FALSE, prompt |-> Undef]} \cup
    {[json |-> TRUE, prompt |-> p] :
        p \in {Undef, Str(""), Num, Str("What courses are offered?")}}

\* process.env.<KEY>
Keys == {Undef, Str(""), Str("secret-key")}

Input(req, key, provider) == [req |-> req, key |-> key, provider |-> provider]
NoInput == Input([json |-> FALSE, prompt |-> Undef], Undef, "")

TransportCauses == {"", "fetch failed"}

GarbageText == "<html>502 Bad Gateway</html>"

\* The settlements of a fetch whose JSON bodies are drawn from bodies.  A
\* 204 response has no body.
Settlements(bodies) ==
    {FetchRejects(c) : c \in TransportCauses} \cup
    {FetchResolves(s, RawEmpty) : s \in {200, 204, 503}} \cup
    {FetchResolves(s, RawText(GarbageText)) : s \in {200, 502}} \cup
    {FetchResolves(s, RawJson(b)) : s \in {200, 400}, b \in bodies}

\* Bodies of the Groq chat-completions endpoint: json.error and
\* json.choices[0].message.content are the members the code reads.
GroqBodies ==
    {JsonNull, JsonString("oops"), JsonObject,
     [JsonObject EXCEPT !.error = ErrObj(Str("Invalid API Key"))],
     [JsonObject EXCEPT !.error = ErrObj(Str(""))],
     [JsonObject EXCEPT !.error = ErrObj(Undef)],
     [JsonObject EXCEPT !.error = ErrStr("rate limited")],
     [JsonObject EXCEPT !.error = ErrStr("")],
     [JsonObject EXCEPT !.content = Str("Nilgiri College offers...")],
     [JsonObject EXCEPT !.content = Str("")]}

----------------------------------------------------------------------------
(* Groq route: POST *)

\* `${msg}` for msg = json?.error?.message || json?.error ||
\*   (typeof json === "string" ? json : JSON.stringify(json))
GroqErrorDetail(json) ==
    IF json.t = "object" /\ json.error.t = "object" /\ Truthy(json.error.message)
    THEN Text(json.error.message.s)
    ELSE IF json.t = "object" /\ ErrTruthy(json.error)
    THEN (IF json.error.t = "string" THEN Text(json.error.s) ELSE Text("[object Object]"))
    ELSE IF json.t = "string" THEN Text(json.s)
    ELSE Stringified(json)

\* json?.choices?.[0]?.message?.content || ""
GroqContent(json) ==
    IF json.t = "object" /\ Truthy(json.content) THEN <<json.content.s>> ELSE <<>>

\* { text, provider: "groq" }
GroqResultBody(text) ==
    [keys |-> {"text", "provider"}, error |-> NoMsg, text |-> text,
     provider |-> "groq", model |-> <<>>, version |-> ""]

\* catch (e) of the route
GroqCatch(r) ==
    IF r.kind = "throw"
    THEN NextResponseJson(
            ErrorBody(IF MessageTruthy(r.e) THEN r.e ELSE Msg("Groq route failed")), 500)
    ELSE r

\* Lines 7-22: the returns before any outbound call; Pending when the
\* route goes on to the fetch.
GroqValidate(req, key) ==
    IF ~req.json
    THEN NextResponseJson(ErrorBody(Msg("Invalid request body")), 400)
    ELSE IF ~Truthy(req.prompt) \/ req.prompt.t # "string"
    THEN NextResponseJson(ErrorBody(Msg("Missing prompt")), 400)
    ELSE IF ~Truthy(key)
    THEN NextResponseJson(ErrorBody(Msg("GROQ_API_KEY not configured")), 500)
    ELSE Pending

\* Mutant of GroqNoContent: the empty text is returned as a result.
GroqNoContentAsResult == NextResponseJson(GroqResultBody(<<>>), 200)

\* Lines 56-95: from the settled fetch to the return.
GroqNoContent ==
    NextResponseJson(ErrorBody(Msg("Groq response had no content")), 500)

GroqParse(o) ==
    IF o.transport THEN Throw(ErrorMessage(o.cause))
    ELSE IF o.raw.kind = "empty"
    THEN NextResponseJson(
            ErrorBody(MsgS("Groq returned empty response (%s)", o.status)),
            StatusOr502(o.status))
    ELSE IF ~JSONParse(o.raw).ok
    THEN NextResponseJson(
            ErrorBody(MsgSD("Groq returned invalid JSON (%s): %s", o.status, Text(o.raw.text))),
            StatusOr502(o.status))
    ELSE LET json == JSONParse(o.raw).val IN
         IF ~Ok(o.status)
         THEN NextResponseJson(
                ErrorBody(MsgSD("Groq API Error (%s): %s", o.status, GroqErrorDetail(json))),
                o.status)
         ELSE IF GroqContent(json) = <<>>
         THEN GroqNoContent
         ELSE NextResponseJson(GroqResultBody(GroqContent(json)), 200)

GeminiUnchanged == UNCHANGED <<v1List, v1betaList, chosenV1, chosenV1beta, selected>>

\* POST is called: validation, then the fetch is issued.
GroqPOST ==
    /\ fn = "idle"
    /\ res' = NoRes
    /\ \E req \in Requests, key \in Keys :
         LET early == GroqCatch(GroqValidate(req, key)) IN
         /\ fn' = "groq"
         /\ input' = Input(req, key, "groq")
         /\ IF early.kind # "none"
            THEN /\ result' = early
                 /\ pc' = "done"
                 /\ calls' = <<>>
            ELSE /\ result' = Pending
                 /\ pc' = "fetch"
                 /\ calls' = <<Call("groq.chat", "https://api.groq.com/openai/v1/chat/completions", "", <<>>)>>
    /\ GeminiUnchanged

\* The fetch settles and the route runs to its return.
GroqFetchSettles ==
    /\ fn = "groq" /\ pc = "fetch"
    /\ \E o \in Settlements(GroqBodies) :
         /\ result' = GroqCatch(GroqParse(o))
         /\ res' = o
         /\ calls' = Settle(calls, o)
    /\ pc' = "done"
    /\ UNCHANGED <<fn, input>>
    /\ GeminiUnchanged

----------------------------------------------------------------------------
(* Gemini route: model names *)

ModelsPrefix == <<"m", "o", "d", "e", "l", "s", "/">>
Flash == <<"f", "l", "a", "s", "h">>
Pro == <<"p", "r", "o">>

\* The names the modelled listings hold.
NameFooPro == ModelsPrefix \o <<"f", "o", "o", "-">> \o Pro
NameBarFlash == ModelsPrefix \o <<"b", "a", "r", "-">> \o Flash
NameBaz == ModelsPrefix \o <<"b", "a", "z">>
NameXFlash == ModelsPrefix \o <<"x", "-">> \o Flash
NameYPro == ModelsPrefix \o <<"y", "-">> \o Pro
NameZFLASH == ModelsPrefix \o <<"Z", "-", "F", "L", "A", "S", "H">>
NameTuned == <<"t", "u", "n", "e", "d", "/", "q">>
NameEmbed == ModelsPrefix \o <<"e", "m", "b">>

\* String.prototype.toLowerCase, on the characters the names use
LowerChar(c) ==
    CASE c = "Z" -> "z" [] c = "F" -> "f" [] c = "L" -> "l"
      [] c = "A" -> "a" [] c = "S" -> "s" [] c = "H" -> "h"
      [] OTHER -> c
toLowerCase(name) == [i \in 1..Len(name) |-> LowerChar(name[i])]

\* String.prototype.includes
includes(n, pat) ==
    \E i \in 1..(Len(n) - Len(pat) + 1) : SubSeq(n, i, i + Len(pat) - 1) = pat

\* String.prototype.startsWith
startsWith(n, pat) == Len(n) >= Len(pat) /\ SubSeq(n, 1, Len(pat)) = pat

\* type ListedModel; null is the null pickGenerateContentModel returns
ListedModel(name, isArray, methods) ==
    [name |-> name, isArray |-> isArray, methods |-> methods, null |-> FALSE]
NoModel == [name |-> <<>>, isArray |-> FALSE, methods |-> {}, null |-> TRUE]

GenerationMethods == {"generateContent", "countTokens"}
ModelPool ==
    {ListedModel(NameFooPro, TRUE, GenerationMethods),
     ListedModel(NameBarFlash, TRUE, GenerationMethods),
     ListedModel(NameBaz, TRUE, {"generateContent"}),
     ListedModel(NameXFlash, TRUE, {"countTokens"}),
     ListedModel(NameYPro, TRUE, GenerationMethods),
     ListedModel(NameZFLASH, TRUE, GenerationMethods),
     ListedModel(NameTuned, TRUE, GenerationMethods),
     ListedModel(NameEmbed, FALSE, {})}

\* The listings an upstream can return: every sequence of at most
\* MaxModels models of the pool.
Listings == UNION {[1..n -> ModelPool] : n \in 0..MaxModels}

----------------------------------------------------------------------------
(* Gemini route: listModels and pickGenerateContentModel *)

\* Bodies of the ListModels endpoint that carry no model array
ListErrorBodies ==
    {JsonNull, JsonString("oops"), JsonObject,
     [JsonObject EXCEPT !.error = ErrObj(Str("API key not valid"))],
     [JsonObject EXCEPT !.error = ErrStr("denied")],
     [JsonObject EXCEPT !.models = ModelsObj]}

ListSettlements ==
    Settlements(ListErrorBodies) \cup
    {FetchResolves(200, RawJson([JsonObject EXCEPT !.models = ModelsArr(ms)])) :
        ms \in Listings}

\* data?.error?.message || JSON.stringify(data)
ListErrorDetail(data) ==
    IF data.t = "object" /\ data.error.t = "object" /\ Truthy(data.error.message)
    THEN Text(data.error.message.s)
    ELSE Stringified(data)

\* listModels(apiKey, version), from the settled fetch on
listModels(o, version) ==
    IF o.transport
    THEN [models |-> <<>>,
          error |-> ListError("ListModels fetch failed for %s: %s", 0, version,
                              IF o.cause # "" THEN Text(o.cause) ELSE Text("Error"))]
    ELSE IF o.raw.kind = "empty"
    THEN [models |-> <<>>,
          error |-> ListError("ListModels empty response (%s) for %s", o.status, version, Text(""))]
    ELSE IF ~JSONParse(o.raw).ok
    THEN [models |-> <<>>,
          error |-> ListError("ListModels invalid JSON (%s) for %s: %s", o.status, version,
                              Text(o.raw.text))]
    ELSE LET data == JSONParse(o.raw).val IN
         IF ~Ok(o.status)
         THEN [models |-> <<>>,
               error |-> ListError("ListModels API error (%s) for %s: %s", o.status, version,
                                   ListErrorDetail(data))]
         ELSE IF data.t = "null"
         THEN \* data.models throws a TypeError, caught at line 145
              [models |-> <<>>,
               error |-> ListError("ListModels fetch failed for %s: %s", 0, version,
                                   Text("Cannot read properties of null (reading 'models')"))]
         ELSE [models |-> IF data.t = "object" /\ data.models.t = "array"
                          THEN data.models.items ELSE <<>>,
               error |-> NoListError]

NoList == [models |-> <<>>, error |-> NoListError]

\* supportsGenerate
supportsGenerate(m) == m.isArray /\ "generateContent" \in m.methods

\* Mutant of byPriority: the name is not lower-cased.
byPriorityCaseSensitive(name) ==
    IF includes(name, Flash) THEN 1
    ELSE IF includes(name, Pro) THEN 2
    ELSE 3

\* byPriority
byPriority(name) ==
    LET n == toLowerCase(name) IN
    IF includes(n, Flash) THEN 1
    ELSE IF includes(n, Pro) THEN 2
    ELSE 3

\* Array.prototype.sort with the comparator byPriority(a.name) -
\* byPriority(b.name): the sort is stable, so it orders by priority and
\* keeps the listing order within a priority.
RECURSIVE Insert(_, _)
Insert(sorted, m) ==
    IF sorted = <<>> THEN <<m>>
    ELSE IF byPriority(sorted[Len(sorted)].name) - byPriority(m.name) > 0
    THEN Append(Insert(SubSeq(sorted, 1, Len(sorted) - 1), m), sorted[Len(sorted)])
    ELSE Append(sorted, m)

RECURSIVE sort(_)
sort(ms) ==
    IF ms = <<>> THEN <<>>
    ELSE Insert(sort(SubSeq(ms, 1, Len(ms) - 1)), ms[Len(ms)])

\* pickGenerateContentModel
pickGenerateContentModel(models) ==
    LET filtered == sort(SelectSeq(models, supportsGenerate)) IN
    IF filtered = <<>> THEN NoModel ELSE filtered[1]


----------------------------------------------------------------------------
(* Gemini route: POST *)

\* Bodies of the generateContent endpoint: data.error, data.message and
\* data.candidates[0].content.parts are the members the code reads; a part
\* is given by its text member.
GenerateBodies ==
    {JsonNull, JsonString("oops"), JsonObject,
     [JsonObject EXCEPT !.error = ErrObj(Str("model overloaded"))],
     [JsonObject EXCEPT !.error = ErrObj(Undef), !.message = Str("quota exceeded")],
     [JsonObject EXCEPT !.error = ErrStr("denied")],
     [JsonObject EXCEPT !.message = Str("not found")],
     [JsonObject EXCEPT !.parts = PartsObj],
     [JsonObject EXCEPT !.parts = PartsArr(<<>>)],
     [JsonObject EXCEPT !.parts = PartsArr(<<Str(""), Undef, Num>>)],
     [JsonObject EXCEPT !.parts = PartsArr(<<Str("Nilgiri College offers...")>>)],
     [JsonObject EXCEPT !.parts = PartsArr(<<Str("B.Sc."), Num, Str("B.Com.")>>)]}

\* Mutant of GeminiValidate: the credential is not checked.
GeminiValidateNoKeyCheck(req, apiKey) ==
    IF ~req.json
    THEN NextResponseJson(ErrorBody(Msg("Invalid request body")), 400)
    ELSE IF ~Truthy(req.prompt) \/ req.prompt.t # "string"
    THEN NextResponseJson(ErrorBody(Msg("Missing prompt")), 400)
    ELSE Pending

\* Lines 170-186: the returns before any outbound call
GeminiValidate(req, apiKey) ==
    IF ~req.json
    THEN NextResponseJson(ErrorBody(Msg("Invalid request body")), 400)
    ELSE IF ~Truthy(req.prompt) \/ req.prompt.t # "string"
    THEN NextResponseJson(ErrorBody(Msg("Missing prompt")), 400)
    ELSE IF ~Truthy(apiKey)
    THEN NextResponseJson(
            ErrorBody(Msg("GEMINI_API_KEY is not configured on the server")), 500)
    ELSE Pending

\* Mutant of GeminiCatch: the outer try/catch is missing.
GeminiCatchMissing(r) == r

\* catch (e) of the route
GeminiCatch(r) ==
    IF r.kind = "throw"
    THEN NextResponseJson(
            ErrorBody(IF MessageTruthy(r.e) THEN r.e ELSE Msg("Gemini route failed")), 500)
    ELSE r

\* m => m.name over a listing
RECURSIVE Names(_)
Names(ms) == IF ms = <<>> THEN <<>> ELSE <<ms[1].name>> \o Names(Tail(ms))

\* Lines 218-222: the text of the discovery failure
DiscoveryFmt ==
    "No Gemini models supporting generateContent were found for your project in v1 or v1beta. Details: %s"

\* Lines 206-226: no model supports generateContent
DiscoveryExhausted(l1, l2) ==
    NextResponseJson(
        ErrorBody([Msg(DiscoveryFmt)
                   EXCEPT !.reasons = [v1Error |-> l1.error, v1betaError |-> l2.error,
                                       v1Names |-> Names(l1.models),
                                       v1betaNames |-> Names(l2.models)]]),
        502)

\* Mutant of NeedsV1beta: fall back when v1 has no capable model.
NeedsV1betaWhenNoneCapable(l1) == pickGenerateContentModel(l1.models).null

\* Line 201: is the v1beta listing fetched?
NeedsV1beta(l1) == Len(l1.models) = 0

\* Line 204
ChooseV1beta(c1, l2) == IF c1.null THEN pickGenerateContentModel(l2.models) ELSE NoModel

\* Line 231
bareModelOf(name) ==
    IF startsWith(name, ModelsPrefix)
    THEN SubSeq(name, Len(ModelsPrefix) + 1, Len(name))
    ELSE name

\* Mutant of Select: the generate call always goes to v1.
SelectAlwaysV1(c1, c2) ==
    IF ~c1.null
    THEN [version |-> "v1", name |-> c1.name, bareModel |-> bareModelOf(c1.name)]
    ELSE [version |-> "v1", name |-> c2.name, bareModel |-> bareModelOf(c2.name)]

\* Lines 228-231
Select(c1, c2) ==
    IF ~c1.null
    THEN [version |-> "v1", name |-> c1.name, bareModel |-> bareModelOf(c1.name)]
    ELSE [version |-> "v1beta", name |-> c2.name, bareModel |-> bareModelOf(c2.name)]
NoSelection == [version |-> "", name |-> <<>>, bareModel |-> <<>>]

GeminiMsg(fmt, sel, status, detail) ==
    [Msg(fmt) EXCEPT !.version = sel.version, !.model = sel.bareModel,
                     !.status = status, !.detail = detail]

\* Mutant of GeminiErrorDetail: the precedence of the Groq route.
GeminiErrorDetailAsGroq(data) == GroqErrorDetail(data)

\* `${msg}` for msg = data?.error?.message || data?.message ||
\*   (typeof data === "string" ? data : JSON.stringify(data))
GeminiErrorDetail(data) ==
    IF data.t = "object" /\ data.error.t = "object" /\ Truthy(data.error.message)
    THEN Text(data.error.message.s)
    ELSE IF data.t = "object" /\ Truthy(data.message)
    THEN Text(data.message.s)
    ELSE IF data.t = "string" THEN Text(data.s)
    ELSE Stringified(data)

\* parts.map(p => typeof p?.text === "string" ? p.text : "").filter(Boolean)
RECURSIVE PartTexts(_)
PartTexts(ps) ==
    IF ps = <<>> THEN <<>>
    ELSE (IF ps[1].t = "string" /\ ps[1].s # "" THEN <<ps[1].s>> ELSE <<>>)
         \o PartTexts(Tail(ps))

\* { text: answer, provider: "gemini", model: bareModel, version }
GeminiResultBody(answer, sel) ==
    [keys |-> {"text", "provider", "model", "version"}, error |-> NoMsg,
     text |-> answer, provider |-> "gemini", model |-> sel.bareModel,
     version |-> sel.version]

GeminiNoContent(sel) ==
    NextResponseJson(
        ErrorBody(GeminiMsg("Gemini %s/%s response had no content", sel, 0, Text(""))), 500)

\* Lines 256-300: from the settled generate fetch to the return
GeminiParse(o, sel) ==
    IF o.transport THEN Throw(ErrorMessage(o.cause))
    ELSE IF o.raw.kind = "empty"
    THEN NextResponseJson(
            ErrorBody(GeminiMsg("Gemini %s/%s returned empty response (%s)", sel, o.status, Text(""))),
            StatusOr502(o.status))
    ELSE IF ~JSONParse(o.raw).ok
    THEN NextResponseJson(
            ErrorBody(GeminiMsg("Gemini %s/%s returned invalid JSON (%s): %s", sel, o.status,
                                Text(o.raw.text))),
            StatusOr502(o.status))
    ELSE LET data == JSONParse(o.raw).val IN
         IF ~Ok(o.status)
         THEN NextResponseJson(
                ErrorBody(GeminiMsg("Gemini API Error (%s/%s - %s): %s", sel, o.status,
                                    GeminiErrorDetail(data))),
                o.status)
         ELSE IF data.t = "object" /\ data.parts.t = "object"
         THEN \* parts is no array: parts.map is not a function
              Throw(ErrorMessage("candidate?.content?.parts?.map is not a function"))
         ELSE LET answer == IF data.t = "object" /\ data.parts.t = "array"
                            THEN PartTexts(data.parts.items) ELSE <<>> IN
              IF answer = <<>>
              THEN GeminiNoContent(sel)
              ELSE NextResponseJson(GeminiResultBody(answer, sel), 200)

ListCall(version) ==
    Call("gemini.list", "https://generativelanguage.googleapis.com/%s/models", version, <<>>)
GenerateCall(sel) ==
    Call("gemini.generate",
         "https://generativelanguage.googleapis.com/%s/models/%s:generateContent",
         sel.version, sel.bareModel)

\* Mutant of GeminiPOST: both listings are requested at once.
GeminiPOSTBothListings ==
    /\ fn = "idle"
    /\ res' = NoRes
    /\ \E req \in Requests, apiKey \in Keys :
         LET early == GeminiCatch(GeminiValidate(req, apiKey)) IN
         /\ fn' = "gemini"
         /\ input' = Input(req, apiKey, "gemini")
         /\ IF early.kind # "none"
            THEN /\ result' = early
                 /\ pc' = "done"
                 /\ calls' = <<>>
            ELSE /\ result' = Pending
                 /\ pc' = "list_v1"
                 /\ calls' = <<ListCall("v1"), ListCall("v1beta")>>
    /\ GeminiUnchanged

\* POST is called: validation, then listModels(apiKey, "v1") is awaited.
GeminiPOST ==
    /\ fn = "idle"
    /\ res' = NoRes
    /\ \E req \in Requests, apiKey \in Keys :
         LET early == GeminiCatch(GeminiValidate(req, apiKey)) IN
         /\ fn' = "gemini"
         /\ input' = Input(req, apiKey, "gemini")
         /\ IF early.kind # "none"
            THEN /\ result' = early
                 /\ pc' = "done"
                 /\ calls' = <<>>
            ELSE /\ result' = Pending
                 /\ pc' = "list_v1"
                 /\ calls' = <<ListCall("v1")>>
    /\ GeminiUnchanged

\* Lines 203-254, with both listings known and cs the calls settled so
\* far: select, then return the discovery failure or issue the generate
\* call.
GeminiSelectAndGenerate(l1, l2, cs) ==
    LET c1 == pickGenerateContentModel(l1.models)
        c2 == ChooseV1beta(c1, l2)
    IN /\ v1List' = l1
       /\ v1betaList' = l2
       /\ chosenV1' = c1
       /\ chosenV1beta' = c2
       /\ IF c1.null /\ c2.null
          THEN /\ selected' = NoSelection
               /\ result' = GeminiCatch(DiscoveryExhausted(l1, l2))
               /\ calls' = cs
               /\ pc' = "done"
          ELSE /\ selected' = Select(c1, c2)
               /\ result' = Pending
               /\ calls' = Append(cs, GenerateCall(Select(c1, c2)))
               /\ pc' = "generate"

\* The v1 listing settles (line 199); line 201 then awaits the v1beta
\* listing or goes on with an empty one.
GeminiListV1Settles ==
    /\ fn = "gemini" /\ pc = "list_v1"
    /\ \E o \in ListSettlements :
         LET l1 == listModels(o, "v1") IN
         /\ res' = o
         /\ IF NeedsV1beta(l1)
            THEN /\ v1List' = l1
                 /\ calls' = Append(Settle(calls, o), ListCall("v1beta"))
                 /\ pc' = "list_v1beta"
                 /\ UNCHANGED <<v1betaList, chosenV1, chosenV1beta, selected, result>>
            ELSE GeminiSelectAndGenerate(l1, NoList, Settle(calls, o))
    /\ UNCHANGED <<fn, input>>

\* The v1beta listing settles.
GeminiListV1betaSettles ==
    /\ fn = "gemini" /\ pc = "list_v1beta"
    /\ \E o \in ListSettlements :
         /\ res' = o
         /\ GeminiSelectAndGenerate(v1List, listModels(o, "v1beta"), Settle(calls, o))
    /\ UNCHANGED <<fn, input>>

\* The generate fetch settles and the route runs to its return.
GeminiGenerateSettles ==
    /\ fn = "gemini" /\ pc = "generate"
    /\ \E o \in Settlements(GenerateBodies) :
         /\ result' = GeminiCatch(GeminiParse(o, selected))
         /\ res' = o
         /\ calls' = Settle(calls, o)
    /\ pc' = "done"
    /\ UNCHANGED <<fn, input, v1List, v1betaList, chosenV1, chosenV1beta, selected>>

----------------------------------------------------------------------------
(* Client dispatcher: aiReply *)

Providers == {"gemini", "groq"}

\* Envelopes a route answers with, as the dispatcher decodes them: the
\* error and text members are the ones it reads.
EnvelopeBodies ==
    {JsonNull, JsonObject,
     [JsonObject EXCEPT !.error = ErrStr("Missing prompt")],
     [JsonObject EXCEPT !.error = ErrObj(Undef)],
     [JsonObject EXCEPT !.text = Str("Nilgiri College offers...")],
     [JsonObject EXCEPT !.text = Str("")]}

\* Line 322
Endpoint(provider) == IF provider = "gemini" THEN "/api/ai/gemini" ELSE "/api/ai/groq"

ProviderMsg(fmt, provider, status, detail) ==
    [Msg(fmt) EXCEPT !.provider = provider, !.status = status, !.detail = detail]

\* Mutant of aiReplyFetchError: the rejection is thrown on as it is.
aiReplyFetchErrorUnwrapped(provider, cause) == Throw(ErrorMessage(cause))

\* Lines 331-333: the catch around the fetch
aiReplyFetchError(provider, cause) ==
    Throw(ProviderMsg("Failed to connect to %s: %s", provider, 0,
                      IF cause # "" THEN Text(cause) ELSE Text("Network error")))

\* Lines 336-357: from the settled fetch on
aiReplyParse(o, provider) ==
    IF o.transport THEN aiReplyFetchError(provider, o.cause)
    ELSE IF o.raw.kind = "empty"
    THEN Throw(ProviderMsg("%s returned empty response (%s)", provider, o.status, Text("")))
    ELSE IF ~JSONParse(o.raw).ok
    THEN Throw(ProviderMsg("%s returned invalid JSON (%s): %s", provider, o.status,
                           Text(o.raw.text)))
    ELSE LET json == JSONParse(o.raw).val IN
         IF json.t = "null"
         THEN \* json.error on null
              Throw(ErrorMessage("Cannot read properties of null (reading 'error')"))
         ELSE IF ~Ok(o.status) \/ ErrTruthy(json.error)
         THEN (IF ErrTruthy(json.error)
               THEN Throw(ErrorMessage(IF json.error.t = "string" THEN json.error.s
                                       ELSE "[object Object]"))
               ELSE Throw(ProviderMsg("%s API error (%s)", provider, o.status, Text(""))))
         ELSE IF ~Truthy(json.text)
         THEN Throw(ProviderMsg("%s returned empty response", provider, 0, Text("")))
         ELSE Return([keys |-> {"text", "provider"}, error |-> NoMsg,
                      text |-> <<json.text.s>>, provider |-> provider,
                      model |-> <<>>, version |-> ""])

\* aiReply is called: the fetch to the route is issued.
aiReplyCall ==
    /\ fn = "idle"
    /\ res' = NoRes
    /\ \E provider \in Providers :
         /\ calls' = <<Call("handler", Endpoint(provider), "", <<>>)>>
         /\ input' = Input([json |-> TRUE, prompt |-> Str("What courses are offered?")],
                           Undef, provider)
    /\ fn' = "aiReply"
    /\ pc' = "fetch"
    /\ result' = Pending
    /\ GeminiUnchanged

\* The fetch settles and aiReply returns or throws.
aiReplyFetchSettles ==
    /\ fn = "aiReply" /\ pc = "fetch"
    /\ \E o \in Settlements(EnvelopeBodies) :
         /\ result' = aiReplyParse(o, input.provider)
         /\ res' = o
         /\ calls' = Settle(calls, o)
    /\ pc' = "done"
    /\ UNCHANGED <<fn, input>>
    /\ GeminiUnchanged

----------------------------------------------------------------------------
(* Direct client call: groqReply *)

\* A bare string returned to the caller
StringResult(text) == [NoBody EXCEPT !.text = text]

\* `${errorMessage}` for json?.error?.message || json?.error || JSON.stringify(json)
groqReplyErrorDetail(json) ==
    IF json.t = "object" /\ json.error.t = "object" /\ Truthy(json.error.message)
    THEN Text(json.error.message.s)
    ELSE IF json.t = "object" /\ ErrTruthy(json.error)
    THEN (IF json.error.t = "string" THEN Text(json.error.s) ELSE Text("[object Object]"))
    ELSE Stringified(json)

\* Line 399: return text || "No response from Groq."
groqReplyText(text) == IF text = <<>> THEN <<"No response from Groq.">> ELSE text

\* Lines 380-399: from the settled fetch on; a rejected fetch is not
\* caught and leaves groqReply as it is.
groqReplyParse(o) ==
    IF o.transport THEN Throw(ErrorMessage(o.cause))
    ELSE IF o.raw.kind = "empty"
    THEN Throw(MsgS("Groq returned empty response (%s)", o.status))
    ELSE IF ~JSONParse(o.raw).ok
    THEN Throw(MsgSD("Groq returned invalid JSON (%s): %s", o.status, Text(o.raw.text)))
    ELSE LET json == JSONParse(o.raw).val IN
         IF ~Ok(o.status)
         THEN Throw(MsgSD("Groq error (%s): %s", o.status, groqReplyErrorDetail(json)))
         ELSE Return(StringResult(groqReplyText(GroqContent(json))))

\* groqReply is called: without the public key it throws, else it issues
\* the fetch.
groqReplyCall ==
    /\ fn = "idle"
    /\ res' = NoRes
    /\ \E GROQ_KEY \in Keys :
         /\ input' = Input([json |-> TRUE, prompt |-> Str("What courses are offered?")],
                           GROQ_KEY, "groq")
         /\ IF ~Truthy(GROQ_KEY)
            THEN /\ result' = Throw(Msg("Missing NEXT_PUBLIC_GROQ_API_KEY"))
                 /\ pc' = "done"
                 /\ calls' = <<>>
            ELSE /\ result' = Pending
                 /\ pc' = "fetch"
                 /\ calls' = <<Call("groq.direct", "https://api.groq.com/openai/v1/chat/completions", "", <<>>)>>
    /\ fn' = "groqReply"
    /\ GeminiUnchanged

\* The fetch settles and groqReply returns or throws.
groqReplyFetchSettles ==
    /\ fn = "groqReply" /\ pc = "fetch"
    /\ \E o \in Settlements(GroqBodies) :
         /\ result' = groqReplyParse(o)
         /\ res' = o
         /\ calls' = Settle(calls, o)
    /\ pc' = "done"
    /\ UNCHANGED <<fn, input>>
    /\ GeminiUnchanged

----------------------------------------------------------------------------

Init ==
    /\ fn = "idle"
    /\ pc = "idle"
    /\ calls = <<>>
    /\ v1List = NoList
    /\ v1betaList = NoList
    /\ chosenV1 = NoModel
    /\ chosenV1beta = NoModel
    /\ selected = NoSelection
    /\ input = NoInput
    /\ res = NoRes
    /\ result = Pending

\* The response has been sent: the next request finds no state left over.
NextRequest ==
    /\ pc = "done"
    /\ fn' = "idle"
    /\ pc' = "idle"
    /\ calls' = <<>>
    /\ v1List' = NoList
    /\ v1betaList' = NoList
    /\ chosenV1' = NoModel
    /\ chosenV1beta' = NoModel
    /\ selected' = NoSelection
    /\ input' = NoInput
    /\ res' = NoRes
    /\ result' = Pending

Next ==
    \/ GroqPOST
    \/ GroqFetchSettles
    \/ GeminiPOST
    \/ GeminiListV1Settles
    \/ GeminiListV1betaSettles
    \/ GeminiGenerateSettles
    \/ aiReplyCall
    \/ aiReplyFetchSettles
    \/ groqReplyCall
    \/ groqReplyFetchSettles
    \/ NextRequest

Spec == Init /\ [][Next]_vars

----------------------------------------------------------------------------
(* Properties *)

IsRoute == fn \in {"groq", "gemini"}
Done == pc = "done"

\* { error }
IsErrorEnvelope(b) == b.keys = {"error"}
\* { text, provider, ... } with a non-empty text
IsResultEnvelope(b) ==
    /\ {"text", "provider"} \subseteq b.keys
    /\ "error" \notin b.keys
    /\ b.text # <<>>

\* The error message an entry point ended with, thrown or in an envelope
ErrorOf(r) == IF r.kind = "throw" THEN r.e ELSE r.body.error

\* The call whose settlement res holds: the last call that is not pending
LastSettled ==
    IF calls # <<>> /\ calls[Len(calls)].state = "pending" THEN Len(calls) - 1 ELSE Len(calls)

HasCall(site, version) ==
    \E i \in 1..Len(calls) : calls[i].site = site /\ calls[i].version = version

\* The upstream answered the call settled last with a 2xx status and a
\* JSON body.
UpstreamOkJson == ~res.transport /\ Ok(res.status) /\ res.raw.kind = "json"
\* ... with a non-2xx status and a JSON body
UpstreamErrorJson ==
    LastSettled >= 1 /\ ~res.transport /\ ~Ok(res.status) /\ res.raw.kind = "json"

----------------------------------------------------------------------------
\* C1: a route that has returned has returned exactly one envelope, an
\* error envelope or a result envelope with a non-empty text and never
\* both, whatever the request, the credential and the upstream did; no
\* exception leaves a route, and a route that has not returned has
\* produced nothing.
C1_OneEnvelope ==
    IsRoute =>
        IF Done
        THEN /\ result.kind = "response"
             /\ IsErrorEnvelope(result.body) # IsResultEnvelope(result.body)
        ELSE result.kind = "none"

\* A TypeError raised inside the Gemini route (parts is no array) ends as
\* an error envelope.
C1_Witness ==
    /\ fn = "gemini" /\ Done
    /\ UpstreamOkJson /\ res.raw.val.parts.t = "object"
    /\ result.kind = "response" /\ result.status = 500
    /\ IsErrorEnvelope(result.body)

----------------------------------------------------------------------------
Capable(m) == m.isArray /\ "generateContent" \in m.methods
AnyCapable(ms) == \E i \in 1..Len(ms) : Capable(ms[i])

\* The v1 listing has settled.
PastV1 == fn = "gemini" /\ calls # <<>> /\ calls[1].state # "pending"

IsDiscoveryExhausted(r) ==
    /\ r.kind = "response" /\ r.status = 502
    /\ IsErrorEnvelope(r.body) /\ r.body.error.fmt = DiscoveryFmt

----------------------------------------------------------------------------
\* The upstream call succeeded and the answer text extracted from its body
\* is empty.
EmptyCompletion ==
    /\ Done /\ LastSettled >= 1 /\ UpstreamOkJson
    /\ \/ /\ calls[LastSettled].site \in {"groq.chat", "groq.direct"}
          /\ ~(res.raw.val.t = "object" /\ Truthy(res.raw.val.content))
       \/ /\ calls[LastSettled].site = "gemini.generate"
          /\ \/ res.raw.val.t # "object"
             \/ res.raw.val.parts.t = "undefined"
             \/ /\ res.raw.val.parts.t = "array"
                /\ \A k \in 1..Len(res.raw.val.parts.items) :
                      ~(res.raw.val.parts.items[k].t = "string"
                        /\ res.raw.val.parts.items[k].s # "")

\* C3 as stated: at the Groq route, the Gemini route and groqReply, an
\* empty completion ends in an error and no answer text is handed back.
C3_Original ==
    EmptyCompletion =>
        /\ result.kind \in {"response", "throw"}
        /\ result.kind = "response" => IsErrorEnvelope(result.body)
        /\ result.body.text = <<>>

\* C3 amended: at the two routes an empty completion ends in an error
\* envelope "... response had no content" with status 500; groqReply
\* returns the text "No response from Groq." instead of failing.
C3_Amended ==
    EmptyCompletion =>
        IF fn = "groqReply"
        THEN result.kind = "return" /\ result.body.text = <<"No response from Groq.">>
        ELSE /\ result.kind = "response" /\ result.status = 500
             /\ IsErrorEnvelope(result.body)
             /\ result.body.text = <<>>
             /\ result.body.error.fmt =
                   IF fn = "groq" THEN "Groq response had no content"
                   ELSE "Gemini %s/%s response had no content"

C3_Witness ==
    /\ fn = "groqReply" /\ EmptyCompletion
    /\ res.raw.val.content = Str("")
    /\ result.kind = "return"

----------------------------------------------------------------------------
FailedToConnect == "Failed to connect to %s: %s"
ListFetchFailed == "ListModels fetch failed for %s: %s"

\* C4 as stated: a call whose fetch rejected is the last call of the
\* request, and the request has ended with an error of the form "Failed to
\* connect to <provider>: <cause>".
C4_Original ==
    \A i \in 1..Len(calls) :
        calls[i].state = "rejected" =>
            /\ i = Len(calls)
            /\ Done
            /\ result.kind \in {"response", "throw"}
            /\ ErrorOf(result).fmt = FailedToConnect

\* C4 amended: a call whose fetch rejected is never issued again, and
\*   - aiReply throws "Failed to connect to <provider>: <cause>", the cause
\*     defaulting to "Network error";
\*   - the Groq route and the generate call of the Gemini route answer 500
\*     with the cause as the error, or "<Provider> route failed" when the
\*     cause has no message;
\*   - groqReply lets the rejection through unchanged;
\*   - a rejected listing is recorded as "ListModels fetch failed for
\*     <version>: <cause>" with no models: after v1 the route goes on to
\*     list v1beta, after v1beta it ends with the discovery failure.
C4_Amended ==
    \A i \in 1..Len(calls) :
        calls[i].state = "rejected" =>
            /\ \A j \in (i + 1)..Len(calls) :
                  ~(calls[j].site = calls[i].site /\ calls[j].version = calls[i].version)
            /\ CASE calls[i].site = "handler" ->
                      /\ Done /\ i = Len(calls)
                      /\ result.kind = "throw"
                      /\ result.e.fmt = FailedToConnect
                      /\ result.e.provider = input.provider
                      /\ result.e.detail =
                            Text(IF res.cause = "" THEN "Network error" ELSE res.cause)
                 [] calls[i].site \in {"groq.chat", "gemini.generate"} ->
                      /\ Done /\ i = Len(calls)
                      /\ result.kind = "response" /\ result.status = 500
                      /\ IsErrorEnvelope(result.body)
                      /\ result.body.error =
                            IF res.cause # "" THEN ErrorMessage(res.cause)
                            ELSE IF fn = "groq" THEN Msg("Groq route failed")
                            ELSE Msg("Gemini route failed")
                 [] calls[i].site = "groq.direct" ->
                      /\ Done /\ i = Len(calls)
                      /\ result = Throw(ErrorMessage(res.cause))
                 [] calls[i].site = "gemini.list" /\ calls[i].version = "v1" ->
                      /\ v1List.models = <<>>
                      /\ v1List.error.fmt = ListFetchFailed
                      /\ v1List.error.version = "v1"
                      /\ Len(calls) >= 2
                      /\ calls[2].site = "gemini.list" /\ calls[2].version = "v1beta"
                 [] OTHER ->
                      /\ v1betaList.models = <<>>
                      /\ v1betaList.error.fmt = ListFetchFailed
                      /\ v1betaList.error.version = "v1beta"
                      /\ Done /\ i = Len(calls)
                      /\ IsDiscoveryExhausted(result)

C4_Witness ==
    /\ fn = "aiReply" /\ Done
    /\ calls[1].state = "rejected" /\ res.cause = "fetch failed"
    /\ result.kind = "throw" /\ result.e.fmt = FailedToConnect

----------------------------------------------------------------------------
\* A route was called with a valid prompt and no credential.
NoCredential ==
    /\ IsRoute
    /\ input.req.json /\ input.req.prompt.t = "string" /\ input.req.prompt.s # ""
    /\ ~(input.key.t = "string" /\ input.key.s # "")

\* C5 as stated: without its credential a route answers 500 with
\* { error: "<CREDENTIAL_NAME> not configured" } and issues no call.
C5_Original ==
    NoCredential =>
        /\ Done /\ calls = <<>>
        /\ result.kind = "response" /\ result.status = 500
        /\ result.body =
              ErrorBody(Msg(IF fn = "groq" THEN "GROQ_API_KEY not configured"
                            ELSE "GEMINI_API_KEY not configured"))

\* C5 amended: the Gemini route's message is "GEMINI_API_KEY is not
\* configured on the server"; the rest stands.
C5_Amended ==
    NoCredential =>
        /\ Done /\ calls = <<>>
        /\ result.kind = "response" /\ result.status = 500
        /\ result.body =
              ErrorBody(Msg(IF fn = "groq" THEN "GROQ_API_KEY not configured"
                            ELSE "GEMINI_API_KEY is not configured on the server"))

C5_Witness ==
    /\ fn = "gemini" /\ NoCredential /\ Done
    /\ input.key = Undef
    /\ result.status = 500

----------------------------------------------------------------------------
\* Candidates for the message of an upstream error, each with whether it
\* is present (truthy) in the decoded body json.
NestedMessage(json) ==
    [present |-> /\ json.t = "object" /\ json.error.t = "object"
                 /\ json.error.message.t = "string" /\ json.error.message.s # "",
     val |-> Text(json.error.message.s)]
NestedError(json) ==
    [present |-> /\ json.t = "object"
                 /\ \/ json.error.t = "object"
                    \/ json.error.t = "string" /\ json.error.s # "",
     val |-> Text(IF json.error.t = "string" THEN json.error.s ELSE "[object Object]")]
TopMessage(json) ==
    [present |-> /\ json.t = "object"
                 /\ json.message.t = "string" /\ json.message.s # "",
     val |-> Text(json.message.s)]

\* The whole decoded body as text: its serialisation, or the string itself
\* when the body is a string.
WholeBody(json) ==
    {Stringified(json)} \cup (IF json.t = "string" THEN {Text(json.s)} ELSE {})

\* detail is the first present candidate of cands, else the whole body.
FirstPresent(detail, cands, json) ==
    IF \E k \in 1..Len(cands) : cands[k].present
    THEN \E k \in 1..Len(cands) :
            /\ cands[k].present
            /\ \A l \in 1..(k - 1) : ~cands[l].present
            /\ detail = cands[k].val
    ELSE detail \in WholeBody(json)

\* The error listModels recorded for the listing settled last
LastListError ==
    IF calls[LastSettled].version = "v1" THEN v1List.error ELSE v1betaList.error

\* What the call settled last failed with: the status and the message
\* detail of the error.
FailureOfLast ==
    IF calls[LastSettled].site = "gemini.list"
    THEN [status |-> LastListError.status, detail |-> LastListError.detail]
    ELSE [status |-> IF result.kind = "response" THEN result.status
                     ELSE ErrorOf(result).status,
          detail |-> ErrorOf(result).detail]

\* C6 as stated: at the Groq call, the Gemini generate call, the Gemini
\* listing call and groqReply alike, a non-2xx answer with a JSON body
\* fails with the upstream status and the first present of error.message,
\* error, the whole body.
C6_Original ==
    (UpstreamErrorJson /\ calls[LastSettled].site # "handler") =>
        /\ FailureOfLast.status = res.status
        /\ FirstPresent(FailureOfLast.detail,
                        <<NestedMessage(res.raw.val), NestedError(res.raw.val)>>,
                        res.raw.val)

\* C6 amended: the Groq route and groqReply use the first non-empty of
\* error.message, error, the whole body; the Gemini generate call uses
\* error.message, the top-level message, the whole body; the listing call
\* uses error.message, the whole body.  The routes answer with the upstream
\* status, groqReply throws, and a failed listing is recorded with the
\* upstream status in its text while the request goes on.
C6_Amended ==
    (UpstreamErrorJson /\ calls[LastSettled].site # "handler") =>
        LET json == res.raw.val
            site == calls[LastSettled].site
        IN /\ FailureOfLast.status = res.status
           /\ FirstPresent(FailureOfLast.detail,
                 CASE site \in {"groq.chat", "groq.direct"} ->
                        <<NestedMessage(json), NestedError(json)>>
                   [] site = "gemini.generate" ->
                        <<NestedMessage(json), TopMessage(json)>>
                   [] OTHER -> <<NestedMessage(json)>>,
                 json)
           /\ CASE site \in {"groq.chat", "gemini.generate"} ->
                     /\ Done /\ result.kind = "response"
                     /\ IsErrorEnvelope(result.body)
                     /\ result.body.error.fmt =
                           IF fn = "groq" THEN "Groq API Error (%s): %s"
                           ELSE "Gemini API Error (%s/%s - %s): %s"
                [] site = "groq.direct" ->
                     /\ Done /\ result.kind = "throw"
                     /\ result.e.fmt = "Groq error (%s): %s"
                [] OTHER ->
                     /\ LastListError.fmt = "ListModels API error (%s) for %s: %s"
                     /\ LastListError.version = calls[LastSettled].version

\* The Gemini generate call answers 400 with an error object that has no
\* message and a top-level message: the top-level message is reported.
C6_Witness ==
    /\ fn = "gemini" /\ Done /\ UpstreamErrorJson
    /\ calls[LastSettled].site = "gemini.generate"
    /\ res.raw.val.error = ErrObj(Undef)
    /\ res.raw.val.message = Str("quota exceeded")
    /\ result.status = 400
    /\ result.body.error.detail = Text("quota exceeded")

----------------------------------------------------------------------------
\* The priority tier of the names of the pool
TierOf(name) ==
    CASE name \in {NameBarFlash, NameXFlash, NameZFLASH} -> 1
      [] name \in {NameFooPro, NameYPro} -> 2
      [] OTHER -> 3

\* r is what the claim says pickGenerateContentModel returns for ms.
PickedFrom(ms, r) ==
    IF ~AnyCapable(ms) THEN r.null
    ELSE \E i \in 1..Len(ms) :
            /\ r = ms[i]
            /\ Capable(ms[i])
            /\ \A j \in 1..Len(ms) :
                  Capable(ms[j]) =>
                      /\ TierOf(ms[j].name) >= TierOf(ms[i].name)
                      /\ TierOf(ms[j].name) = TierOf(ms[i].name) => j >= i

\* The selection of lines 203-204 has run.
SelectionRan == fn = "gemini" /\ pc \in {"generate", "done"} /\ calls # <<>>

\* C7: pickGenerateContentModel returns null iff the listing has no
\* capable model, else the earliest listed of the capable models of the
\* lowest tier (flash 1, pro 2, other 3; case-insensitive); never a model
\* without generateContent.
C7_PickedModel ==
    SelectionRan =>
        /\ PickedFrom(v1List.models, chosenV1)
        /\ chosenV1.null => PickedFrom(v1betaList.models, chosenV1beta)
        /\ chosenV1.null <=> ~AnyCapable(v1List.models)

\* A flash model listed after a pro model is picked.
C7_Witness ==
    /\ SelectionRan
    /\ v1List.models = <<ListedModel(NameFooPro, TRUE, GenerationMethods),
                         ListedModel(NameZFLASH, TRUE, GenerationMethods)>>
    /\ chosenV1.name = NameZFLASH

----------------------------------------------------------------------------
\* The generate call of the request, if one was issued
GenerateCalls == {i \in 1..Len(calls) : calls[i].site = "gemini.generate"}

\* C8: a generate call goes to v1 whenever the v1 listing holds a capable
\* model and to v1beta otherwise, the selected model being a capable model
\* of that version's listing; the model of its URL is the selected name
\* without a leading "models/"; a successful result reports the version
\* and the model of the call.
C8_GenerateTarget ==
    \A i \in GenerateCalls :
        LET g == calls[i]
            listing == IF g.version = "v1" THEN v1List.models ELSE v1betaList.models
        IN /\ g.version = IF AnyCapable(v1List.models) THEN "v1" ELSE "v1beta"
           /\ \E k \in 1..Len(listing) :
                 Capable(listing[k]) /\ listing[k].name = selected.name
           /\ \/ ModelsPrefix \o g.model = selected.name
              \/ /\ g.model = selected.name
                 /\ ~(Len(selected.name) >= Len(ModelsPrefix)
                      /\ \A k \in 1..Len(ModelsPrefix) : selected.name[k] = ModelsPrefix[k])
           /\ (Done /\ result.kind = "response" /\ IsResultEnvelope(result.body)) =>
                 /\ result.body.version = g.version
                 /\ result.body.model = g.model

\* A model selected from the v1beta listing answers.
C8_Witness ==
    /\ fn = "gemini" /\ Done
    /\ GenerateCalls # {}
    /\ selected.name = NameBaz /\ selected.version = "v1beta"
    /\ result.kind = "response" /\ IsResultEnvelope(result.body)
    /\ result.body.model = <<"b", "a", "z">>
    /\ result.body.version = "v1beta"

----------------------------------------------------------------------------
CallKey(c) == <<c.site, c.version>>
RECURSIVE CallKeys(_)
CallKeys(cs) == IF cs = <<>> THEN <<>> ELSE <<CallKey(cs[1])>> \o CallKeys(Tail(cs))

\* C9: the calls of a Gemini request are a prefix of list v1, list v1beta
\* (optional), generate; each call is issued when the one before it has
\* settled; generate is issued only with a model selected, and never on
\* the discovery failure; a request that has ended has no call pending.
C9_SequentialCalls ==
    fn = "gemini" =>
        /\ CallKeys(calls) \in
              {<<>>,
               << <<"gemini.list", "v1">> >>,
               << <<"gemini.list", "v1">>, <<"gemini.list", "v1beta">> >>,
               << <<"gemini.list", "v1">>, <<"gemini.generate", "v1">> >>,
               << <<"gemini.list", "v1">>, <<"gemini.list", "v1beta">>,
                  <<"gemini.generate", "v1beta">> >>}
        /\ \A i \in 1..(Len(calls) - 1) : calls[i].state # "pending"
        /\ Done => \A i \in 1..Len(calls) : calls[i].state # "pending"
        /\ ~Done => (calls # <<>> /\ calls[Len(calls)].state = "pending")
        /\ GenerateCalls # {} => (selected # NoSelection /\ ~(chosenV1.null /\ chosenV1beta.null))
        /\ (Done /\ IsDiscoveryExhausted(result)) => GenerateCalls = {}

\* Three calls, the last one rejected, and the request has ended.
C9_Witness ==
    /\ fn = "gemini" /\ Done
    /\ Len(calls) = 3
    /\ calls[3].site = "gemini.generate" /\ calls[3].state = "rejected"

----------------------------------------------------------------------------
====
